---- MODULE Spec2Model ----
(***************************************************************************)
(* A model of movie-mcp.py: the argument normalizer, the filter builder    *)
(* and the three read operations (find_movies, count_movies,               *)
(* get_average_rating) over a document collection.                         *)
(*                                                                         *)
(* Conventions                                                             *)
(*   - a Python str that the code inspects character by character (regex   *)
(*     patterns, names, JSON text) is a sequence of one-character strings; *)
(*     a str that is only compared or looked up (field paths, rating keys, *)
(*     operator names) is a TLA+ string;                                   *)
(*   - Optional[T] is a sequence of length 0 (None) or 1 (the value);      *)
(*   - a Python dict is a function whose DOMAIN is the set of its keys.    *)
(***************************************************************************)
EXTENDS Integers, Sequences, FiniteSets, TLC

VARIABLES
    collection,   \* the store's movies collection: a sequence of documents in natural order
    globals,      \* the module-level objects the tools read (RATING_FIELD_MAP, ...)
    phase,        \* "idle", or "done" once the call in `call` has returned
    call,         \* the operation called and its arguments
    query,        \* the filter document the call built
    matched,      \* SpecFilter: the positions of the documents the filter matches
    issued,       \* the commands the call sent to the store
    result        \* what the call returned

vars == <<collection, globals, phase, call, query, matched, issued, result>>

None == <<>>
Some(x) == <<x>>

\* Python truthiness of an Optional str / Optional list: None, "" and [] are falsy.
Truthy(opt) == opt # None /\ opt[1] # <<>>

(***************************************************************************)
(* Dicts.                                                                  *)
(***************************************************************************)
EmptyDict == [k \in {} |-> 0]

\* d[k] = v
DictSet(d, k, v) == [x \in (DOMAIN d) \cup {k} |-> IF x = k THEN v ELSE d[x]]

(***************************************************************************)
(* Constants and mappings (module level).                                  *)
(***************************************************************************)
RATING_FIELD_MAP ==
    ("imdb" :> "imdb.rating") @@ ("metacritic" :> "metacritic")
    @@ ("tomatoes_viewer" :> "tomatoes.viewer.rating")
    @@ ("tomatoes_critic" :> "tomatoes.critic.rating")
    @@ ("imdb_votes" :> "imdb.votes")
    @@ ("tomatoes_viewer_num_reviews" :> "tomatoes.viewer.numReviews")
    @@ ("tomatoes_critic_num_reviews" :> "tomatoes.critic.numReviews")

DEFAULT_PROJECTION_FIELDS == <<"title", "year", "plot", "imdb.rating", "genres">>

ModuleGlobals ==
    [RATING_FIELD_MAP |-> RATING_FIELD_MAP, DEFAULT_PROJECTION_FIELDS |-> DEFAULT_PROJECTION_FIELDS]

(***************************************************************************)
(* The store's regular expressions ($regex with $options "i"), for the     *)
(* syntax the model's alphabet can write: literals, ".", "|", and the      *)
(* anchors "^" and "$" that the code itself adds.                          *)
(***************************************************************************)
Lower(c) ==
    CASE c = "R" -> "r"
      [] c = "G" -> "g"
      [] c = "P" -> "p"
      [] c = "B" -> "b"
      [] OTHER -> c

\* The alternatives of a pattern: its pieces between the "|" characters.
RECURSIVE SplitAlternatives(_, _, _)
SplitAlternatives(p, i, cur) ==
    IF i > Len(p) THEN <<cur>>
    ELSE IF p[i] = "|" THEN <<cur>> \o SplitAlternatives(p, i + 1, <<>>)
    ELSE SplitAlternatives(p, i + 1, Append(cur, p[i]))

\* Does alt[k..] match text from position i on (the match may end anywhere)?
RECURSIVE MatchHere(_, _, _, _, _)
MatchHere(alt, k, text, i, ci) ==
    IF k > Len(alt) THEN TRUE
    ELSE IF alt[k] = "^" THEN i = 1 /\ MatchHere(alt, k + 1, text, i, ci)
    ELSE IF alt[k] = "$" THEN i = Len(text) + 1 /\ MatchHere(alt, k + 1, text, i, ci)
    ELSE /\ i <= Len(text)
         /\ \/ alt[k] = "."
            \/ alt[k] = text[i]
            \/ ci /\ Lower(alt[k]) = Lower(text[i])
         /\ MatchHere(alt, k + 1, text, i + 1, ci)

\* An unanchored search, as $regex does.
RegexSearch(p, text, ci) ==
    LET alts == SplitAlternatives(p, 1, <<>>)
    IN  \E a \in 1..Len(alts) : \E i \in 1..(Len(text) + 1) :
            MatchHere(alts[a], 1, text, i, ci)

(***************************************************************************)
(* Documents.  text: the string and string-array fields (a string field is *)
(* an array of at most one string); genres: an array of genre names; num:  *)
(* the scalar fields by dotted path, each missing, a number or a string.   *)
(***************************************************************************)
Missing == [kind |-> "missing", num |-> 0]
Number(n) == [kind |-> "number", num |-> n]
NonNumeric == [kind |-> "string", num |-> 0]

TextField(doc, path) == IF path \in DOMAIN doc.text THEN doc.text[path] ELSE <<>>
ScalarField(doc, path) == IF path \in DOMAIN doc.num THEN doc.num[path] ELSE Missing

(***************************************************************************)
(* The store's filter semantics for the operators the code writes.         *)
(***************************************************************************)
MatchOperator(doc, path, cond, op) ==
    CASE op = "$regex" ->
            \E i \in DOMAIN TextField(doc, path) :
                RegexSearch(cond[op], TextField(doc, path)[i],
                            "$options" \in DOMAIN cond /\ cond["$options"] = "i")
      [] op = "$options" -> TRUE
      [] op = "$all" ->
            /\ Len(cond[op]) > 0
            /\ \A j \in DOMAIN cond[op] :
                   \E i \in DOMAIN doc.genres : doc.genres[i] = cond[op][j]
      [] op = "$eq" ->
            ScalarField(doc, path).kind = "number" /\ ScalarField(doc, path).num = cond[op]
      [] op = "$gte" ->
            ScalarField(doc, path).kind = "number" /\ ScalarField(doc, path).num >= cond[op]
      [] op = "$lte" ->
            ScalarField(doc, path).kind = "number" /\ ScalarField(doc, path).num <= cond[op]
      [] op = "$exists" -> (ScalarField(doc, path).kind # "missing") = cond[op]
      [] op = "$type" -> cond[op] = "number" => ScalarField(doc, path).kind = "number"
      [] OTHER -> FALSE

MatchField(doc, path, cond) == \A op \in DOMAIN cond : MatchOperator(doc, path, cond, op)

\* A filter document: every key must hold; "$and" holds a list of filter documents.
RECURSIVE MatchQuery(_, _)
MatchQuery(doc, q) ==
    \A k \in DOMAIN q :
        IF k = "$and"
        THEN \A i \in DOMAIN q[k] : MatchQuery(doc, q[k][i])
        ELSE MatchField(doc, k, q[k])

(***************************************************************************)
(* _build_movie_query                                                      *)
(***************************************************************************)
RegexClause(pattern) == DictSet(DictSet(EmptyDict, "$regex", pattern), "$options", "i")

MinRatingClause(min) == DictSet(DictSet(EmptyDict, "$gte", min), "$exists", TRUE)

\* for name in names_list: query["$and"].append({field_name: {...}})
RECURSIVE AppendNames(_, _, _, _)
AppendNames(q, field_name, names_list, i) ==
    IF i > Len(names_list) THEN q
    ELSE AppendNames(
             DictSet(q, "$and",
                     Append(q["$and"], DictSet(EmptyDict, field_name, RegexClause(names_list[i])))),
             field_name, names_list, i + 1)

\* The mutant: the "$and" list is started afresh for every role.
AddRoleResetting(q, field_name, names) ==
    IF Truthy(names)
    THEN AppendNames(DictSet(q, "$and", <<>>), field_name, names[1], 1)
    ELSE q

\* One turn of the loop over ("cast", actors), ("directors", ...), ("writers", ...).
AddRole(q, field_name, names) ==
    IF Truthy(names)
    THEN AppendNames(IF "$and" \notin DOMAIN q \/ q["$and"] = <<>>
                     THEN DictSet(q, "$and", <<>>) ELSE q,
                     field_name, names[1], 1)
    ELSE q

\* The mutant: the range is applied whether or not an exact year is given.
AddYearRangeFirst(q, year, start_year, end_year) ==
    LET q1 == IF year # None THEN DictSet(q, "year", DictSet(EmptyDict, "$eq", year[1])) ELSE q
        c1 == IF start_year # None THEN DictSet(EmptyDict, "$gte", start_year[1]) ELSE EmptyDict
        c2 == IF end_year # None THEN DictSet(c1, "$lte", end_year[1]) ELSE c1
    IN  IF DOMAIN c2 # {} THEN DictSet(q1, "year", c2) ELSE q1

\* if year is not None: ... elif start_year is not None or end_year is not None: ...
\* (query["year"] = year is written as the store's equivalent {"$eq": year})
AddYear(q, year, start_year, end_year) ==
    IF year # None THEN DictSet(q, "year", DictSet(EmptyDict, "$eq", year[1]))
    ELSE IF start_year # None \/ end_year # None
    THEN LET c1 == IF start_year # None
                   THEN DictSet(EmptyDict, "$gte", start_year[1]) ELSE EmptyDict
             c2 == IF end_year # None THEN DictSet(c1, "$lte", end_year[1]) ELSE c1
         IN  IF DOMAIN c2 # {} THEN DictSet(q, "year", c2) ELSE q
    ELSE q

AddMinRating(q, path, min) == IF min # None THEN DictSet(q, path, MinRatingClause(min[1])) ELSE q

\* query["rated"] = {"$regex": f"^{rated_mpaa}$", "$options": "i"}
AddRated(q, rated_mpaa) ==
    IF Truthy(rated_mpaa)
    THEN DictSet(q, "rated", RegexClause(<<"^">> \o rated_mpaa[1] \o <<"$">>))
    ELSE q

_build_movie_query(title, genres, actors, directors, writers, year, start_year, end_year, min_imdb_rating, min_metacritic_rating, min_tomatoes_viewer_rating, min_tomatoes_critic_rating, rated_mpaa) ==
    LET q0 == EmptyDict
        q1 == IF Truthy(title) THEN DictSet(q0, "title", RegexClause(title[1])) ELSE q0
        q2 == IF Truthy(genres) THEN DictSet(q1, "genres", DictSet(EmptyDict, "$all", genres[1]))
              ELSE q1
        q3 == AddRole(q2, "cast", actors)
        q4 == AddRole(q3, "directors", directors)
        q5 == AddRole(q4, "writers", writers)
        q6 == AddYear(q5, year, start_year, end_year)
        q7 == AddMinRating(q6, "imdb.rating", min_imdb_rating)
        q8 == AddMinRating(q7, "metacritic", min_metacritic_rating)
        q9 == AddMinRating(q8, "tomatoes.viewer.rating", min_tomatoes_viewer_rating)
        q10 == AddMinRating(q9, "tomatoes.critic.rating", min_tomatoes_critic_rating)
    IN  AddRated(q10, rated_mpaa)

\* The filter arguments of one call as a record, and the builder applied to it.
FilterArgs(title, genres, actors, directors, writers, year, start_year, end_year, mi, mm, mtv, mtc, rated_mpaa) ==
    [title |-> title, genres |-> genres, actors |-> actors, directors |-> directors,
     writers |-> writers, year |-> year, start_year |-> start_year, end_year |-> end_year,
     min_imdb_rating |-> mi, min_metacritic_rating |-> mm,
     min_tomatoes_viewer_rating |-> mtv, min_tomatoes_critic_rating |-> mtc,
     rated_mpaa |-> rated_mpaa]

NoFilterArgs ==
    FilterArgs(None, None, None, None, None, None, None, None, None, None, None, None, None)

BuildQuery(a) ==
    _build_movie_query(a.title, a.genres, a.actors, a.directors, a.writers, a.year,
                       a.start_year, a.end_year, a.min_imdb_rating, a.min_metacritic_rating,
                       a.min_tomatoes_viewer_rating, a.min_tomatoes_critic_rating,
                       a.rated_mpaa)

(***************************************************************************)
(* Python values as the normalizer sees them: None, an int, a str or a     *)
(* list.  s holds the characters of a str and the digits of an int.        *)
(***************************************************************************)
PyNone == [k |-> "null", s |-> <<>>, items |-> <<>>]
PyStr(s) == [k |-> "str", s |-> s, items |-> <<>>]
PyInt(digits) == [k |-> "int", s |-> digits, items |-> <<>>]
PyList(items) == [k |-> "list", s |-> <<>>, items |-> items]

RECURSIVE JoinRepr(_, _)
RECURSIVE Repr(_)
\* repr(v): a str in quotes, None as None, a list as [e1, e2].
Repr(v) ==
    CASE v.k = "str" -> <<"'">> \o v.s \o <<"'">>
      [] v.k = "int" -> v.s
      [] v.k = "null" -> <<"N", "o", "n", "e">>
      [] OTHER -> <<"[">> \o JoinRepr(v.items, 1) \o <<"]">>

JoinRepr(items, i) ==
    IF i > Len(items) THEN <<>>
    ELSE Repr(items[i]) \o (IF i < Len(items) THEN <<",", " ">> ELSE <<>>) \o JoinRepr(items, i + 1)

\* str(v)
Str(v) == IF v.k = "str" THEN v.s ELSE Repr(v)

\* The mutant: None items are stringified like the others.
RECURSIVE StrItemsKeepingNone(_, _)
StrItemsKeepingNone(items, i) ==
    IF i > Len(items) THEN <<>>
    ELSE <<Str(items[i])>> \o StrItemsKeepingNone(items, i + 1)

\* [str(item) for item in items if item is not None]
RECURSIVE StrItems(_, _)
StrItems(items, i) ==
    IF i > Len(items) THEN <<>>
    ELSE (IF items[i].k # "null" THEN <<Str(items[i])>> ELSE <<>>) \o StrItems(items, i + 1)

(***************************************************************************)
(* json.loads, for the JSON the model's alphabet can write: arrays,        *)
(* strings without escapes, integers of the digit 1, null, and blanks.     *)
(* A parse returns [ok, val, next]: the value and the position after it.   *)
(***************************************************************************)
IsSpace(c) == c = " "

RECURSIVE SkipSpace(_, _)
SkipSpace(s, i) == IF i <= Len(s) /\ IsSpace(s[i]) THEN SkipSpace(s, i + 1) ELSE i

ParseFail == [ok |-> FALSE, val |-> PyNone, next |-> 0]
ParseOk(v, n) == [ok |-> TRUE, val |-> v, next |-> n]

\* The position of the closing quote of the string that starts after position i, or 0.
RECURSIVE ClosingQuote(_, _)
ClosingQuote(s, i) ==
    IF i > Len(s) THEN 0 ELSE IF s[i] = "\"" THEN i ELSE ClosingQuote(s, i + 1)

RECURSIVE DigitsEnd(_, _)
DigitsEnd(s, i) == IF i <= Len(s) /\ s[i] = "1" THEN DigitsEnd(s, i + 1) ELSE i

RECURSIVE ParseValue(_, _)
RECURSIVE ParseItems(_, _, _)
ParseValue(s, i) ==
    IF i > Len(s) THEN ParseFail
    ELSE IF s[i] = "\"" THEN
        LET e == ClosingQuote(s, i + 1)
        IN  IF e = 0 THEN ParseFail ELSE ParseOk(PyStr(SubSeq(s, i + 1, e - 1)), e + 1)
    ELSE IF s[i] = "1" THEN
        LET e == DigitsEnd(s, i)
        IN  ParseOk(PyInt(SubSeq(s, i, e - 1)), e)
    ELSE IF s[i] = "n" THEN
        IF i + 3 <= Len(s) /\ SubSeq(s, i, i + 3) = <<"n", "u", "l", "l">>
        THEN ParseOk(PyNone, i + 4) ELSE ParseFail
    ELSE IF s[i] = "[" THEN
        LET j == SkipSpace(s, i + 1)
        IN  IF j <= Len(s) /\ s[j] = "]" THEN ParseOk(PyList(<<>>), j + 1)
            ELSE ParseItems(s, j, <<>>)
    ELSE ParseFail

\* The items of an array from position i on, after the items in acc.
ParseItems(s, i, acc) ==
    LET v == ParseValue(s, i)
        j == SkipSpace(s, v.next)
    IN  IF ~v.ok THEN ParseFail
        ELSE IF j > Len(s) THEN ParseFail
        ELSE IF s[j] = "]" THEN ParseOk(PyList(Append(acc, v.val)), j + 1)
        ELSE IF s[j] = "," THEN ParseItems(s, SkipSpace(s, j + 1), Append(acc, v.val))
        ELSE ParseFail

\* json.loads(s): the value, or the JSONDecodeError it raises.
JsonLoads(s) ==
    LET v == ParseValue(s, SkipSpace(s, 1))
    IN  IF v.ok /\ SkipSpace(s, v.next) = Len(s) + 1
        THEN [ok |-> TRUE, val |-> v.val, error |-> "none"]
        ELSE [ok |-> FALSE, val |-> PyNone, error |-> "JSONDecodeError"]

(***************************************************************************)
(* _parse_stringified_list_arg.  The outcome is [raised, value]: value is  *)
(* None or the list; raised says an exception left the function.           *)
(***************************************************************************)
Returned(v) == [raised |-> FALSE, value |-> v]
Raised == [raised |-> TRUE, value |-> None]

\* not arg.strip()
IsBlank(s) == \A i \in DOMAIN s : IsSpace(s[i])

\* The mutant: a string that is not JSON is ignored like a JSON non-list.
ParseStringDroppingBare(s) ==
    IF IsBlank(s) THEN Returned(None)
    ELSE LET parsed_arg == JsonLoads(s)
         IN  IF parsed_arg.ok
             THEN IF parsed_arg.val.k = "list"
                  THEN Returned(Some(StrItems(parsed_arg.val.items, 1)))
                  ELSE Returned(None)
             ELSE Returned(None)

\* The isinstance(arg, str) branch.
ParseString(s) ==
    IF IsBlank(s) THEN Returned(None)
    ELSE LET parsed_arg == JsonLoads(s)
         IN  IF parsed_arg.ok
             THEN IF parsed_arg.val.k = "list"
                  THEN Returned(Some(StrItems(parsed_arg.val.items, 1)))
                  ELSE Returned(None)
             ELSE IF parsed_arg.error = "JSONDecodeError" THEN Returned(Some(<<s>>))
             ELSE Raised

_parse_stringified_list_arg(arg) ==
    IF arg.k = "null" THEN Returned(None)
    ELSE IF arg.k = "list" THEN Returned(Some(StrItems(arg.items, 1)))
    ELSE IF arg.k = "str" THEN ParseString(arg.s)
    ELSE Returned(None)

(***************************************************************************)
(* Sample values.                                                          *)
(***************************************************************************)
Comedy == <<"C">>
Drama == <<"D">>

Doc(title, genres, cast, directors, writers, year, imdb, metacritic, viewer, critic, rated) ==
    [text |-> [title |-> title, cast |-> cast, directors |-> directors, writers |-> writers,
               rated |-> rated],
     genres |-> genres,
     num |-> ("year" :> year) @@ ("imdb.rating" :> imdb) @@ ("metacritic" :> metacritic)
             @@ ("tomatoes.viewer.rating" :> viewer) @@ ("tomatoes.critic.rating" :> critic)]

\* The documents the filter is applied to in SpecFilter.
FilterDocs ==
    << Doc(Some(<<"R", "g">>), <<Comedy, Drama>>, << <<"B", "g">>, <<"P", "r">> >>,
           << <<"R", "b">> >>, << <<"G", "b">> >>,
           Number(1985), Number(7), Number(70), Number(3), Number(7), Some(<<"R">>)),
       Doc(Some(<<"b", "r">>), <<Comedy>>, << <<"B", "g">> >>,
           << <<"P", "b">> >>, <<>>,
           Number(1988), Number(5), Missing, Number(4), Missing, Some(<<"P", "G">>)),
       Doc(None, <<>>, <<>>, <<>>, <<>>, Missing, Missing, Missing, Missing, Missing, None),
       Doc(Some(<<"G">>), <<Drama>>, << <<"P", "r">>, <<"R", "b">> >>,
           << <<"R", "b">>, <<"P", "b">> >>, << <<"G", "b">>, <<"R", "b">> >>,
           Number(1990), NonNumeric, Number(50), Number(0), Number(8), Some(<<"G">>)),
       Doc(Some(<<"r">>), <<Comedy, Drama>>, << <<"P", "r">> >>,
           << <<"R", "b">> >>, << <<"G", "b">> >>,
           Number(1988), Number(0), Number(60), Number(3), Number(9),
           Some(<<"P", "G", "-", "1", "3">>)) >>

\* The values each filter argument is drawn from in SpecFilter.
TitleArgs == {None, Some(<<>>), Some(<<"r">>)}
GenresArgs == {None, Some(<<>>), Some(<<Comedy>>), Some(<<Comedy, Drama>>)}
ActorsArgs == {None, Some(<< <<"b", "g">> >>), Some(<< <<"b", "g">>, <<"p", "r">> >>)}
DirectorsArgs == {None, Some(<< <<"r", "b">> >>), Some(<< <<"r", "b">>, <<"p", "b">> >>)}
WritersArgs == {None, Some(<< <<"g", "b">> >>)}
YearArgs == {None, Some(1985), Some(1988)}
StartYearArgs == {None, Some(1986), Some(1990)}
EndYearArgs == {None, Some(1989)}
MinImdbArgs == {None, Some(0), Some(6)}
MinMetacriticArgs == {None, Some(60)}
MinViewerArgs == {None, Some(3)}
MinCriticArgs == {None, Some(8)}
RatedArgs == {None, Some(<<>>), Some(<<"r">>), Some(<<"P", "G">>), Some(<<".">>), Some(<<"R", "|", "G">>)}

\* At most this many filter arguments are supplied (not None) in one call of SpecFilter.
MaxSupplied == 3

FilterArgNames == {"title", "genres", "actors", "directors", "writers", "year", "start_year", "end_year", "min_imdb_rating", "min_metacritic_rating", "min_tomatoes_viewer_rating", "min_tomatoes_critic_rating", "rated_mpaa"}

Supplied(a) == {n \in FilterArgNames : a[n] # None}

(***************************************************************************)
(* SpecFilter: the filter builder applied to bounded arguments, and the    *)
(* filter it returns applied to every sample document.                     *)
(***************************************************************************)
InitFilter ==
    /\ collection = FilterDocs
    /\ globals = ModuleGlobals
    /\ phase = "idle"
    /\ call = [op |-> "none", args |-> NoFilterArgs]
    /\ query = EmptyDict
    /\ matched = {}
    /\ issued = <<>>
    /\ result = <<>>

ApplyFilter ==
    /\ phase = "idle"
    /\ \E t \in TitleArgs, g \in GenresArgs, ac \in ActorsArgs, d \in DirectorsArgs,
          w \in WritersArgs, y \in YearArgs, sy \in StartYearArgs, ey \in EndYearArgs :
       \E mi \in MinImdbArgs, mm \in MinMetacriticArgs, mtv \in MinViewerArgs,
          mtc \in MinCriticArgs, r \in RatedArgs :
          LET a == FilterArgs(t, g, ac, d, w, y, sy, ey, mi, mm, mtv, mtc, r)
          IN  /\ Cardinality(Supplied(a)) <= MaxSupplied
              /\ call' = [op |-> "_build_movie_query", args |-> a]
              /\ query' = BuildQuery(a)
              /\ matched' = {i \in DOMAIN collection : MatchQuery(collection[i], BuildQuery(a))}
    /\ phase' = "done"
    /\ UNCHANGED <<collection, globals, issued, result>>

NextFilter == ApplyFilter

SpecFilter == InitFilter /\ [][NextFilter]_vars

(***************************************************************************)
(* Properties of the filter builder (SpecFilter).                          *)
(***************************************************************************)
LowerStr(s) == [i \in DOMAIN s |-> Lower(s[i])]

\* The filter built from one role's single name, and from the year arguments alone.
OneNameArgs(role, name) == [NoFilterArgs EXCEPT ![role] = Some(<<name>>)]
OneArg(a, n) == [NoFilterArgs EXCEPT ![n] = a[n]]
YearArgsOnly(a) == [NoFilterArgs EXCEPT !.year = a.year, !.start_year = a.start_year, !.end_year = a.end_year]
WithoutYearArgs(a) == [a EXCEPT !.year = None, !.start_year = None, !.end_year = None]

SatisfiesNames(d, role, names) ==
    names # None =>
        \A i \in DOMAIN names[1] : MatchQuery(d, BuildQuery(OneNameArgs(role, names[1][i])))

\* d satisfies every supplied predicate, each taken on its own.
SatisfiesEach(d, a) ==
    /\ \A n \in {"title", "genres", "min_imdb_rating", "min_metacritic_rating", "min_tomatoes_viewer_rating", "min_tomatoes_critic_rating", "rated_mpaa"} :
           MatchQuery(d, BuildQuery(OneArg(a, n)))
    /\ SatisfiesNames(d, "actors", a.actors)
    /\ SatisfiesNames(d, "directors", a.directors)
    /\ SatisfiesNames(d, "writers", a.writers)
    /\ MatchQuery(d, BuildQuery(YearArgsOnly(a)))

\* C6: the composed filter is the conjunction of the supplied predicates: a document
\* matches it iff it satisfies each supplied predicate taken on its own (each name of
\* each role separately), and with no predicate supplied every document matches.
C6_FilterIsConjunction ==
    phase = "done" /\ call.op = "_build_movie_query" =>
        /\ \A i \in DOMAIN collection :
               (i \in matched) <=> SatisfiesEach(collection[i], call.args)
        /\ Supplied(call.args) = {} => matched = DOMAIN collection

\* Two actor names and a director are supplied; some documents match and some do not.
C6_Witness ==
    /\ phase = "done" /\ call.op = "_build_movie_query"
    /\ call.args.actors # None /\ Len(call.args.actors[1]) = 2
    /\ call.args.directors # None
    /\ matched # {} /\ matched # DOMAIN collection

\* The year constraint as C7 states it.
YearHolds(d, a) ==
    LET y == ScalarField(d, "year")
    IN  IF a.year # None THEN y.kind = "number" /\ y.num = a.year[1]
        ELSE /\ a.start_year # None => y.kind = "number" /\ y.num >= a.start_year[1]
             /\ a.end_year # None => y.kind = "number" /\ y.num <= a.end_year[1]

\* C7: with an exact year the filter requires exactly that year and ignores start_year
\* and end_year; without it, it applies the inclusive bounds that are supplied; with
\* none of the three there is no year constraint.
C7_YearPrecedence ==
    phase = "done" /\ call.op = "_build_movie_query" =>
        \A i \in DOMAIN collection :
            (i \in matched) <=>
                /\ YearHolds(collection[i], call.args)
                /\ MatchQuery(collection[i], BuildQuery(WithoutYearArgs(call.args)))

\* year = 1985 with start_year = 1986: the 1985 document matches, the bound is ignored.
C7_Witness ==
    /\ phase = "done" /\ call.op = "_build_movie_query"
    /\ call.args.year = Some(1985) /\ call.args.start_year = Some(1986)
    /\ 1 \in matched

RatedEquals(d, value) ==
    /\ d.text.rated # None
    /\ LowerStr(d.text.rated[1]) = LowerStr(value)

\* C9: for a supplied non-empty rated_mpaa the MPAA predicate matches a document iff
\* the document's rated field equals the value ignoring case (the whole value, never a
\* part or a pattern).
C9_RatedExactMatch ==
    phase = "done" /\ call.op = "_build_movie_query" /\ Truthy(call.args.rated_mpaa) =>
        \A i \in DOMAIN collection :
            (i \in matched) <=>
                /\ RatedEquals(collection[i], call.args.rated_mpaa[1])
                /\ MatchQuery(collection[i], BuildQuery([call.args EXCEPT !.rated_mpaa = None]))

(***************************************************************************)
(* SpecParse: the normalizer applied to strings made of at most MaxTokens  *)
(* tokens.                                                                 *)
(***************************************************************************)
MaxTokens == 5

Tokens == { <<"[">>, <<"]">>, <<",">>, <<"1">>, <<" ">>, <<"a">>, <<"\"", "a", "\"">>, <<"n", "u", "l", "l">> }

RECURSIVE Flatten(_, _)
Flatten(ts, i) == IF i > Len(ts) THEN <<>> ELSE ts[i] \o Flatten(ts, i + 1)

TokenSeqs == UNION {[1..n -> Tokens] : n \in 0..MaxTokens}

InitParse ==
    /\ collection = <<>>
    /\ globals = ModuleGlobals
    /\ phase = "idle"
    /\ call = [op |-> "none", arg |-> PyNone]
    /\ query = EmptyDict
    /\ matched = {}
    /\ issued = <<>>
    /\ result = Returned(None)

Normalize ==
    /\ phase = "idle"
    /\ \E ts \in TokenSeqs :
          LET arg == PyStr(Flatten(ts, 1))
          IN  /\ call' = [op |-> "_parse_stringified_list_arg", arg |-> arg]
              /\ result' = _parse_stringified_list_arg(arg)
    /\ phase' = "done"
    /\ UNCHANGED <<collection, globals, query, matched, issued>>

NextParse == Normalize

SpecParse == InitParse /\ [][NextParse]_vars

ASCENDING == 1
DESCENDING == -1

Matching(coll, filter) == {i \in DOMAIN coll : MatchQuery(coll[i], filter)}

\* The store's order of scalar values: missing, then numbers, then strings.
KindRank(v) == CASE v.kind = "missing" -> 0 [] v.kind = "number" -> 1 [] OTHER -> 2

KeyLeq(a, b) ==
    \/ KindRank(a) < KindRank(b)
    \/ KindRank(a) = KindRank(b) /\ (a.kind = "number" => a.num <= b.num)

\* Document i may come before document j under the sort (field, direction).
MayPrecede(coll, i, j, sort) ==
    IF sort[2] = ASCENDING
    THEN KeyLeq(ScalarField(coll[i], sort[1]), ScalarField(coll[j], sort[1]))
    ELSE KeyLeq(ScalarField(coll[j], sort[1]), ScalarField(coll[i], sort[1]))

\* The orders in which the store may return the documents at the positions in idx.
Orderings(coll, idx, sort) ==
    LET n == Cardinality(idx)
    IN  IF sort = None
        THEN {[k \in 1..n |-> CHOOSE i \in idx : Cardinality({j \in idx : j < i}) = k - 1]}
        ELSE {o \in [1..n -> idx] :
                 /\ \A k, l \in 1..n : k # l => o[k] # o[l]
                 /\ \A k \in 1..(n - 1) : MayPrecede(coll, o[k], o[k + 1], sort[1])}

\* cursor.limit(n): the first n; 0 is no limit.
Limited(o, n) == IF n > 0 /\ n < Len(o) THEN SubSeq(o, 1, n) ELSE o

HasField(doc, path) ==
    \/ path = "_id"
    \/ path = "genres"
    \/ path \in DOMAIN doc.text /\ doc.text[path] # <<>>
    \/ path \in DOMAIN doc.num /\ doc.num[path].kind # "missing"

FieldValue(doc, path) ==
    CASE path = "_id" -> doc._id
      [] path = "genres" -> doc.genres
      [] path \in DOMAIN doc.text -> doc.text[path]
      [] OTHER -> doc.num[path]

\* The fields the projection includes, of those the document has.
Project(doc, projection) ==
    LET included == {f \in DOMAIN projection : projection[f] = 1}
        shown == IF "_id" \in DOMAIN projection /\ projection["_id"] = 0
                 THEN included ELSE included \cup {"_id"}
    IN  [f \in {f \in shown : HasField(doc, f)} |-> FieldValue(doc, f)]

StoreFailure(coll) == [ok |-> FALSE, coll |-> coll, docs |-> <<>>, n |-> 0]
StoreOutcome(coll, docs, n) == [ok |-> TRUE, coll |-> coll, docs |-> docs, n |-> n]

\* A returned document: src is its position in the collection.
Returned_doc(coll, i, projection) == [src |-> i, doc |-> Project(coll[i], projection)]

\* "$" + path, the way a pipeline names a field, and the path such a name stands for.
FieldRef(path) == "$" \o path

KnownPaths ==
    {RATING_FIELD_MAP[k] : k \in DOMAIN RATING_FIELD_MAP} \cup {"year", "nosuch", "imdb", ""}

PathOf(ref) == CHOOSE p \in KnownPaths : FieldRef(p) = ref

\* $group with _id None, $avg of the field and $sum 1: no group for no input; the
\* average is over the numeric values (None without any), as the pair <<sum, count>>.
RECURSIVE SumOf(_, _, _)
SumOf(coll, idx, path) ==
    IF idx = {} THEN 0
    ELSE LET i == CHOOSE i \in idx : TRUE
         IN  ScalarField(coll[i], path).num + SumOf(coll, idx \ {i}, path)

GroupAll(coll, idx, group) ==
    IF idx = {} THEN <<>>
    ELSE LET path == PathOf(group.averageRating.avg)
             numeric == {i \in idx : ScalarField(coll[i], path).kind = "number"}
         IN  << [averageRating |-> IF numeric = {} THEN None
                                   ELSE Some(<<SumOf(coll, numeric, path), Cardinality(numeric)>>),
                 movieCount |-> Cardinality(idx)] >>

StoreExecute(coll, cmd, fails) ==
    IF fails THEN {StoreFailure(coll)}
    ELSE CASE cmd.cmd = "find" ->
                {StoreOutcome(coll,
                    [k \in DOMAIN Limited(o, cmd.limit) |-> Returned_doc(coll, o[k], cmd.projection)],
                    0) : o \in Orderings(coll, Matching(coll, cmd.filter), cmd.sort)}
           [] cmd.cmd = "count_documents" ->
                {StoreOutcome(coll, <<>>, Cardinality(Matching(coll, cmd.filter)))}
           [] cmd.cmd = "aggregate" ->
                {StoreOutcome(coll,
                    GroupAll(coll, Matching(coll, cmd.pipeline[1].match), cmd.pipeline[2].group), 0)}
           [] OTHER ->
                LET gone == Matching(coll, cmd.filter)
                IN  {StoreOutcome(SelectSeq(coll, LAMBDA d : ~MatchQuery(d, cmd.filter)),
                                  <<>>, Cardinality(gone))}

(***************************************************************************)
(* The tools.  Each operator gives the set of ways the call can end, as    *)
(* [query, issued, result, coll]: the filter built, the commands sent, the *)
(* value returned (or the exception raised) and the collection afterwards. *)
(***************************************************************************)
TruthyStr(opt) == opt # None /\ opt[1] # ""

Range(f) == {f[i] : i \in DOMAIN f}

ListResult(docs) == [kind |-> "list", docs |-> docs]
IntResult(n) == [kind |-> "int", n |-> n]
NoneResult == [kind |-> "None"]
AverageResult(average, count, error) ==
    [kind |-> "dict", average_rating |-> average, movie_count |-> count, error |-> error]
RaisedResult == [kind |-> "raised"]

Ending(q, cmds, res, coll) == [query |-> q, issued |-> cmds, result |-> res, coll |-> coll]

\* The four list-like arguments parsed; raised if a parse raised.
ParsedArgs(a) ==
    LET g == _parse_stringified_list_arg(a.genres)
        ac == _parse_stringified_list_arg(a.actors)
        d == _parse_stringified_list_arg(a.directors)
        w == _parse_stringified_list_arg(a.writers)
    IN  [raised |-> g.raised \/ ac.raised \/ d.raised \/ w.raised,
         args |-> [a EXCEPT !.genres = g.value, !.actors = ac.value,
                            !.directors = d.value, !.writers = w.value]]

\* final_projection: the fields asked for (or the default ones) as 1, and _id as 0
\* unless it is asked for.
FinalProjection(projection_fields, defaults) ==
    LET fields == IF Truthy(projection_fields) THEN projection_fields[1] ELSE defaults
        asked == IF projection_fields = None THEN {} ELSE Range(projection_fields[1])
        shown == [f \in Range(fields) |-> 1]
    IN  IF DOMAIN shown # {} /\ "_id" \notin asked THEN DictSet(shown, "_id", 0) ELSE shown

\* The mutant: a key that is not in the table is no sort key.
SortOfMappedOnly(map, sort_by, sort_order_asc) ==
    IF TruthyStr(sort_by) /\ sort_by[1] \in DOMAIN map
    THEN Some(<<map[sort_by[1]], IF ~sort_order_asc THEN DESCENDING ELSE ASCENDING>>)
    ELSE None

\* RATING_FIELD_MAP.get(sort_by, sort_by) and the direction, when sort_by is truthy.
SortOf(map, sort_by, sort_order_asc) ==
    IF TruthyStr(sort_by)
    THEN Some(<< IF sort_by[1] \in DOMAIN map THEN map[sort_by[1]] ELSE sort_by[1],
                 IF ~sort_order_asc THEN DESCENDING ELSE ASCENDING >>)
    ELSE None

\* The mutant: the limit is handed to the cursor as it is, and the store reads a
\* negative limit as its absolute value.
FindCommandAnyLimit(q, projection, sort, limit) ==
    [cmd |-> "find", filter |-> q, projection |-> projection, sort |-> sort,
     limit |-> IF limit < 0 THEN -limit ELSE limit]

FindCommand(q, projection, sort, limit) ==
    [cmd |-> "find", filter |-> q, projection |-> projection, sort |-> sort,
     limit |-> IF limit > 0 THEN limit ELSE 0]

\* The mutant: no except clause around the read.
FindReturnPropagating(out) == IF out.ok THEN ListResult(out.docs) ELSE RaisedResult

\* return list(cursor) / except Exception: return []
FindReturn(out) == IF out.ok THEN ListResult(out.docs) ELSE ListResult(<<>>)

find_movies(coll, g, a, sort_by, sort_order_asc, limit, projection_fields, fails) ==
    LET parsed == ParsedArgs(a)
        q == BuildQuery(parsed.args)
        cmd == FindCommand(q, FinalProjection(projection_fields, g.DEFAULT_PROJECTION_FIELDS),
                           SortOf(g.RATING_FIELD_MAP, sort_by, sort_order_asc), limit)
    IN  IF parsed.raised THEN {Ending(EmptyDict, <<>>, RaisedResult, coll)}
        ELSE {Ending(q, <<cmd>>, FindReturn(out), out.coll) : out \in StoreExecute(coll, cmd, fails)}

\* The mutant: the count is taken with a command that removes what it counts.
CountCommandDeleting(q) == [cmd |-> "delete_many", filter |-> q]

CountCommand(q) == [cmd |-> "count_documents", filter |-> q]

\* return movies_collection.count_documents(query) / except Exception: return 0
CountReturn(out) == IF out.ok THEN IntResult(out.n) ELSE IntResult(0)

\* The mutant: start_year and end_year are passed in each other's position.
CountQuerySwappingYears(a) ==
    _build_movie_query(a.title, a.genres, a.actors, a.directors, a.writers, a.year,
                       a.end_year, a.start_year, a.min_imdb_rating, a.min_metacritic_rating,
                       a.min_tomatoes_viewer_rating, a.min_tomatoes_critic_rating,
                       a.rated_mpaa)

\* count_movies passes the arguments to the builder by position.
CountQuery(a) ==
    _build_movie_query(a.title, a.genres, a.actors, a.directors, a.writers, a.year,
                       a.start_year, a.end_year, a.min_imdb_rating, a.min_metacritic_rating,
                       a.min_tomatoes_viewer_rating, a.min_tomatoes_critic_rating,
                       a.rated_mpaa)

count_movies(coll, a, fails) ==
    LET parsed == ParsedArgs(a)
        q == CountQuery(parsed.args)
    IN  IF parsed.raised THEN {Ending(EmptyDict, <<>>, RaisedResult, coll)}
        ELSE {Ending(q, <<CountCommand(q)>>, CountReturn(out), out.coll) :
                 out \in StoreExecute(coll, CountCommand(q), fails)}

\* The mutant: an unknown key is used as the field path, as sort_by is.
RatingFieldPassingThrough(map, rating_field_key) ==
    Some(IF rating_field_key \in DOMAIN map THEN map[rating_field_key] ELSE rating_field_key)

\* RATING_FIELD_MAP.get(rating_field_key)
RatingFieldOf(map, rating_field_key) ==
    IF rating_field_key \in DOMAIN map THEN Some(map[rating_field_key]) ELSE None

\* The mutant: the rating field has to exist, of any type.
AverageMatchQueryAnyType(q, db_rating_field) ==
    DictSet(q, db_rating_field, DictSet(EmptyDict, "$exists", TRUE))

\* match_query[db_rating_field] = {"$exists": True, "$type": "number"}
AverageMatchQuery(q, db_rating_field) ==
    DictSet(q, db_rating_field, DictSet(DictSet(EmptyDict, "$exists", TRUE), "$type", "number"))

AveragePipeline(match_query, db_rating_field) ==
    << [match |-> match_query],
       [group |-> [_id |-> None, averageRating |-> [avg |-> FieldRef(db_rating_field)],
                   movieCount |-> [sum |-> 1]]] >>

\* round(sum / count, 2) in hundredths, a tie going to the even hundredth.
Round2(sum, count) ==
    LET q == (100 * sum) \div count
        r == (100 * sum) % count
    IN  IF 2 * r < count THEN q
        ELSE IF 2 * r > count THEN q + 1
        ELSE IF q % 2 = 0 THEN q ELSE q + 1

\* The try block of get_average_rating and its except clause.
AverageReturn(out) ==
    IF ~out.ok THEN AverageResult(None, 0, Some("error"))
    ELSE IF out.docs # <<>> /\ out.docs[1].movieCount > 0
    THEN LET avg_rating == out.docs[1].averageRating
         IN  AverageResult(IF avg_rating # None
                           THEN Some(Round2(avg_rating[1][1], avg_rating[1][2])) ELSE None,
                           out.docs[1].movieCount, None)
    ELSE AverageResult(None, 0, None)

\* The arguments get_average_rating passes to the filter builder.
AverageFilterArgs(a) ==
    [NoFilterArgs EXCEPT !.genres = a.genres, !.actors = a.actors, !.directors = a.directors,
                         !.writers = a.writers, !.year = a.year,
                         !.start_year = a.start_year, !.end_year = a.end_year]

get_average_rating(coll, g, rating_field_key, a, fails) ==
    LET db_rating_field == RatingFieldOf(g.RATING_FIELD_MAP, rating_field_key)
        parsed == ParsedArgs(a)
        match_query == AverageMatchQuery(BuildQuery(AverageFilterArgs(parsed.args)),
                                         db_rating_field[1])
        cmd == [cmd |-> "aggregate", pipeline |-> AveragePipeline(match_query, db_rating_field[1])]
    IN  IF ~TruthyStr(db_rating_field) THEN {Ending(EmptyDict, <<>>, NoneResult, coll)}
        ELSE IF parsed.raised THEN {Ending(EmptyDict, <<>>, RaisedResult, coll)}
        ELSE {Ending(match_query, <<cmd>>, AverageReturn(out), out.coll) :
                 out \in StoreExecute(coll, cmd, fails)}

(***************************************************************************)
(* Spec: the three tools called, one call at a time, on a collection drawn *)
(* from the sample documents; a call's read may fail.                      *)
(***************************************************************************)
WithId(id, d) == [_id |-> id, text |-> d.text, genres |-> d.genres, num |-> d.num]

\* Two documents tie on imdb.rating, one lacks it; metacritic is a number, a string or
\* missing.
OpsDocs ==
    << WithId(1, Doc(Some(<<"R", "g">>), <<Comedy, Drama>>, << <<"B", "g">> >>, << <<"R", "b">> >>, <<>>,
                     Number(1988), Number(7), Number(70), Missing, Missing, Some(<<"R">>))),
       WithId(2, Doc(Some(<<"b", "r">>), <<Comedy>>, << <<"B", "g">>, <<"P", "r">> >>, <<>>, <<>>,
                     Number(1988), Number(5), NonNumeric, Missing, Missing, Some(<<"P", "G">>))),
       WithId(3, Doc(Some(<<"G">>), <<Drama>>, <<>>, << <<"R", "b">> >>, <<>>,
                     Number(1985), Missing, Number(51), Missing, Missing, None)),
       WithId(4, Doc(Some(<<"r">>), <<Comedy>>, << <<"P", "r">> >>, <<>>, <<>>,
                     Number(1988), Number(7), Missing, Missing, Missing, Some(<<"R">>))) >>

\* The documents of OpsDocs at the positions in S, in order.
RECURSIVE Pick(_, _)
Pick(S, i) ==
    IF i > Len(OpsDocs) THEN <<>>
    ELSE (IF i \in S THEN <<OpsDocs[i]>> ELSE <<>>) \o Pick(S, i + 1)

Collections == {Pick(S, 1) : S \in {{}, {3}, {1, 4}, {2, 3}, {1, 2, 3}, {2, 3, 4}, {1, 2, 3, 4}}}

\* The tools' arguments as passed: the list-like ones are any Python value.
NoArgs == [NoFilterArgs EXCEPT !.genres = PyNone, !.actors = PyNone, !.directors = PyNone, !.writers = PyNone]

AverageFilters ==
    {NoArgs}
    \cup {[NoArgs EXCEPT !.genres = v] :
             v \in {PyList(<<PyStr(Comedy)>>), PyStr(Comedy), PyStr(<<" ">>)}}
    \cup {[NoArgs EXCEPT !.actors = v] :
             v \in {PyStr(<<"[", "\"", "b", "g", "\"", "]">>), PyList(<<PyStr(<<"p", "r">>), PyNone>>), PyInt(<<"1">>)}}
    \cup {[NoArgs EXCEPT !.directors = v] : v \in {PyStr(<<"r", "b">>)}}
    \cup {[NoArgs EXCEPT !.year = v] : v \in {Some(1988)}}
    \cup {[NoArgs EXCEPT !.start_year = v] : v \in {Some(1986)}}
    \cup {[NoArgs EXCEPT !.year = Some(1985), !.end_year = Some(1984)]}

Filters ==
    AverageFilters
    \cup {[NoArgs EXCEPT !.title = v] : v \in {Some(<<"r">>)}}
    \cup {[NoArgs EXCEPT !.min_imdb_rating = v] : v \in {Some(6)}}
    \cup {[NoArgs EXCEPT !.rated_mpaa = v] : v \in {Some(<<"r">>)}}
    \cup {[NoArgs EXCEPT !.genres = PyStr(Comedy), !.min_metacritic_rating = Some(60)]}

SortByArgs == {None, Some(""), Some("imdb"), Some("imdb.rating"), Some("year"), Some("nosuch")}
ProjectionArgs == {None, Some(<<"title">>), Some(<<"_id", "year">>)}
RatingKeyArgs == {"imdb", "metacritic", "imdb.rating", "nosuch", ""}

\* find_movies is called with limit in -1..MaxLimit.
MaxLimit == 2

NoCall == [op |-> "none"]

Init ==
    /\ collection \in Collections
    /\ globals = ModuleGlobals
    /\ phase = "idle"
    /\ call = NoCall
    /\ query = EmptyDict
    /\ matched = {}
    /\ issued = <<>>
    /\ result = NoneResult

Ends(e) ==
    /\ query' = e.query
    /\ issued' = e.issued
    /\ result' = e.result
    /\ collection' = e.coll
    /\ phase' = "done"
    /\ UNCHANGED <<globals, matched>>

FindMovies ==
    /\ phase = "idle"
    /\ \E a \in Filters, sort_by \in SortByArgs, sort_order_asc \in BOOLEAN,
          limit \in -1..MaxLimit, projection_fields \in ProjectionArgs, fails \in BOOLEAN :
          /\ call' = [op |-> "find_movies", args |-> a, sort_by |-> sort_by,
                      sort_order_asc |-> sort_order_asc, limit |-> limit,
                      projection_fields |-> projection_fields, fails |-> fails]
          /\ \E e \in find_movies(collection, globals, a, sort_by, sort_order_asc, limit,
                                  projection_fields, fails) : Ends(e)

CountMovies ==
    /\ phase = "idle"
    /\ \E a \in Filters, fails \in BOOLEAN :
          /\ call' = [op |-> "count_movies", args |-> a, fails |-> fails]
          /\ \E e \in count_movies(collection, a, fails) : Ends(e)

GetAverageRating ==
    /\ phase = "idle"
    /\ \E rating_field_key \in RatingKeyArgs, a \in AverageFilters, fails \in BOOLEAN :
          /\ call' = [op |-> "get_average_rating", rating_field_key |-> rating_field_key,
                      args |-> a, fails |-> fails]
          /\ \E e \in get_average_rating(collection, globals, rating_field_key, a, fails) : Ends(e)

\* The response is returned and the call's structures are discarded.
Return ==
    /\ phase = "done"
    /\ phase' = "idle"
    /\ call' = NoCall
    /\ query' = EmptyDict
    /\ issued' = <<>>
    /\ result' = NoneResult
    /\ UNCHANGED <<collection, globals, matched>>

Next == FindMovies \/ CountMovies \/ GetAverageRating \/ Return

Spec == Init /\ [][Next]_vars

(***************************************************************************)
(* Properties of the tools (Spec).                                         *)
(***************************************************************************)
Called(op) == phase = "done" /\ call.op = op

\* The filter a call's arguments stand for.
FilterOf(a) == BuildQuery(ParsedArgs(a).args)

Resolved(key) == IF key \in DOMAIN RATING_FIELD_MAP THEN RATING_FIELD_MAP[key] ELSE key

\* C1: when the store read of find_movies, count_movies or get_average_rating (with a
\* valid rating key) fails, the call returns its neutral value ([], 0, or a null
\* average with a zero count and an error field) and raises nothing.
C1_FailureIsNeutral ==
    /\ Called("find_movies") /\ call.fails => result = ListResult(<<>>)
    /\ Called("count_movies") /\ call.fails => result = IntResult(0)
    /\ Called("get_average_rating") /\ call.fails /\ call.rating_field_key \in DOMAIN RATING_FIELD_MAP =>
           /\ result.kind = "dict"
           /\ result.average_rating = None /\ result.movie_count = 0 /\ result.error # None

\* A find on a collection with matching documents failed and returned [].
C1_Witness ==
    /\ Called("find_movies") /\ call.fails /\ call.args = NoArgs
    /\ Len(collection) = 4 /\ Len(issued) = 1
    /\ result = ListResult(<<>>)

\* C2: get_average_rating with a rating_field_key that is no key of RATING_FIELD_MAP
\* returns None, and no command has been sent to the store, whatever the filters.
C2_UnknownKeyReturnsNone ==
    Called("get_average_rating") /\ call.rating_field_key \notin DOMAIN RATING_FIELD_MAP =>
        result = NoneResult /\ issued = <<>>

\* An unknown key with a filter supplied, on a collection with documents.
C2_Witness ==
    /\ Called("get_average_rating") /\ call.rating_field_key = "nosuch"
    /\ call.args.year = Some(1988) /\ Len(collection) = 4
    /\ result = NoneResult /\ issued = <<>>

SortsByResolvedKey ==
    Called("find_movies") /\ TruthyStr(call.sort_by) =>
        /\ Len(issued) = 1
        /\ issued[1].sort # None /\ issued[1].sort[1][1] = Resolved(call.sort_by[1])

AveragesField(path) ==
    /\ Len(issued) = 1
    /\ path \in DOMAIN issued[1].pipeline[1].match
    /\ issued[1].pipeline[2].group.averageRating.avg = FieldRef(path)

\* C3 as stated: every sort_by key and every rating_field_key is used as its table
\* entry or, when absent from the table, unchanged as a field path.
C3_KeysResolveOrPassThrough ==
    /\ SortsByResolvedKey
    /\ Called("get_average_rating") => AveragesField(Resolved(call.rating_field_key))

\* C3 as amended: a non-empty sort_by key is used as its table entry or, when absent
\* from the table, unchanged as the sort field; a rating_field_key is used as its table
\* entry and, when absent from the table, is not passed through: the call returns None
\* and sends nothing to the store.
C3_SortPassesThroughAverageRejects ==
    /\ SortsByResolvedKey
    /\ Called("get_average_rating") =>
           IF call.rating_field_key \in DOMAIN RATING_FIELD_MAP
           THEN AveragesField(RATING_FIELD_MAP[call.rating_field_key])
           ELSE result = NoneResult /\ issued = <<>>

\* A find sorted by a key that is not in the table, used as it is.
C3_Witness ==
    /\ Called("find_movies") /\ call.sort_by = Some("nosuch")
    /\ issued[1].sort = Some(<<"nosuch", DESCENDING>>)

\* The documents that count for an average: they match the reduced filter and their
\* rating field is a number.
Contributing(a, path) ==
    {i \in DOMAIN collection :
        /\ MatchQuery(collection[i], BuildQuery(AverageFilterArgs(ParsedArgs(a).args)))
        /\ ScalarField(collection[i], path).kind = "number"}

\* C4: with a valid key and no store failure, get_average_rating returns the mean
\* (rounded to two decimals) and the number of exactly the documents that match the
\* reduced filter and whose rating field is a number; with none, a null average and a
\* zero count; and no error field either way.
C4_AverageOverNumeric ==
    Called("get_average_rating") /\ ~call.fails /\ call.rating_field_key \in DOMAIN RATING_FIELD_MAP =>
        LET path == RATING_FIELD_MAP[call.rating_field_key]
            docs == Contributing(call.args, path)
        IN  /\ result.kind = "dict" /\ result.error = None
            /\ result.movie_count = Cardinality(docs)
            /\ result.average_rating =
                   IF docs = {} THEN None
                   ELSE Some(Round2(SumOf(collection, docs, path), Cardinality(docs)))

\* metacritic over 70, a string, 51 and a missing value: 60.5 over 2 documents.
C4_Witness ==
    /\ Called("get_average_rating") /\ ~call.fails /\ call.rating_field_key = "metacritic"
    /\ call.args = NoArgs /\ Len(collection) = 4
    /\ result = AverageResult(Some(6050), 2, None)

\* The positions of the returned documents, in the order returned.
ReturnedOrder == [k \in DOMAIN result.docs |-> result.docs[k].src]

\* C5: find_movies with limit <= 0 returns every matching document; with limit > 0 it
\* returns at most limit documents, the first limit of the matching ones in the order
\* of the resolved sort key and the direction asked for.
C5_LimitAndOrder ==
    Called("find_movies") /\ ~call.fails =>
        LET M == Matching(collection, FilterOf(call.args))
            R == ReturnedOrder
            n == Len(R)
            sort == <<Resolved(call.sort_by[1]), IF call.sort_order_asc THEN ASCENDING ELSE DESCENDING>>
        IN  /\ result.kind = "list"
            /\ Range(R) \subseteq M
            /\ \A k, l \in 1..n : k # l => R[k] # R[l]
            /\ call.limit <= 0 => Range(R) = M
            /\ call.limit > 0 => n = (IF Cardinality(M) < call.limit THEN Cardinality(M) ELSE call.limit)
            /\ TruthyStr(call.sort_by) =>
                   /\ \A k \in 1..(n - 1) : MayPrecede(collection, R[k], R[k + 1], sort)
                   /\ \A k \in 1..n : \A m \in M \ Range(R) : MayPrecede(collection, R[k], m, sort)

\* The two highest imdb ratings of 1988, of three such documents.
C5_Witness ==
    /\ Called("find_movies") /\ ~call.fails /\ Len(collection) = 4
    /\ call.args.year = Some(1988) /\ call.sort_by = Some("imdb")
    /\ ~call.sort_order_asc /\ call.limit = 2
    /\ Len(result.docs) = 2 /\ Range(ReturnedOrder) = {1, 4}

ReadCommands == {"find", "count_documents", "aggregate"}

\* The ways the call in `c` can end on collection coll with the module as loaded.
EndingsOf(c, coll) ==
    CASE c.op = "find_movies" ->
            find_movies(coll, ModuleGlobals, c.args, c.sort_by, c.sort_order_asc, c.limit,
                        c.projection_fields, c.fails)
      [] c.op = "count_movies" -> count_movies(coll, c.args, c.fails)
      [] c.op = "get_average_rating" ->
            get_average_rating(coll, ModuleGlobals, c.rating_field_key, c.args, c.fails)
      [] OTHER -> {}

\* C10: no call changes the collection or the module's objects, whether or not its
\* read fails; every command sent is a read; and a call ends as its arguments and the
\* collection alone determine, whatever was called before.
C10_ReadOnlyAndStateless ==
    [][/\ collection' = collection
       /\ globals' = globals
       /\ phase' = "done" =>
              /\ \A k \in DOMAIN issued' : issued'[k].cmd \in ReadCommands
              /\ \E e \in EndingsOf(call', collection) : e.result = result' /\ e.issued = issued'
       /\ phase' = "idle" => call' = NoCall /\ issued' = <<>> /\ result' = NoneResult]_vars

\* A count that found documents, with the collection as it was.
C10_Witness ==
    /\ Called("count_movies") /\ ~call.fails
    /\ result = IntResult(4) /\ Len(collection) = 4 /\ collection = OpsDocs

\* The calls of find_movies with the arguments a, limit = 0 and no store failure, under
\* every sort key, direction and projection the tool is called with.
FindAllEndings(coll, a) ==
    UNION {find_movies(coll, globals, a, sort_by, sort_order_asc, 0, projection_fields, FALSE) :
              sort_by \in SortByArgs, sort_order_asc \in BOOLEAN,
              projection_fields \in ProjectionArgs}

\* C11: for the same filter arguments, the same collection and no store failure, the
\* number count_movies returns is the number of documents find_movies returns with
\* limit = 0, whatever the sort key, direction and projection; and the two calls hand
\* the same filter to the store.
C11_CountEqualsFindAll ==
    /\ (Called("count_movies") /\ ~call.fails /\ result.kind = "int") =>
           \A e \in FindAllEndings(collection, call.args) :
              /\ e.result.kind = "list"
              /\ Len(e.result.docs) = result.n
              /\ e.query = query
    /\ (Called("find_movies") /\ ~call.fails /\ call.limit = 0 /\ result.kind = "list") =>
           \A e \in count_movies(collection, call.args, FALSE) :
              /\ e.result = IntResult(Len(result.docs))
              /\ e.query = query

\* A count with a year range that some but not all documents of the collection meet.
C11_Witness ==
    /\ Called("count_movies") /\ ~call.fails
    /\ call.args.start_year # None
    /\ result.kind = "int" /\ result.n > 0 /\ result.n < Len(collection)
    /\ \E e \in FindAllEndings(collection, call.args) : Len(e.result.docs) = result.n

====
